---- MODULE Spec2Model ----
(***************************************************************************)
(* Model of LaserControl (src/laser_control): the sweep worker thread with *)
(* its helper trigger thread, the measurement engine's driver pair, the    *)
(* live-view widget's streaming toggle and poll timer, and the two-phase   *)
(* persistence of a finished sweep.                                        *)
(*                                                                         *)
(* Threads: the GUI thread runs the handlers run_sweep,                    *)
(* show_connection_dialog, toggle_streaming, update_plot and               *)
(* on_sweep_finished, each as one atomic action.  A SweepWorker (QThread)  *)
(* executes run() one driver call per step; its helper thread executes     *)
(* trigger_laser.  time.sleep() orders nothing between threads, so a sleep *)
(* is part of the step that follows it.                                    *)
(*                                                                         *)
(* Hardware: the laser and the digitizer are the environment.  A command   *)
(* sent over an open session either takes effect or fails (the VISA write  *)
(* raises); the digitizer finishes a block capture when it chooses.        *)
(***************************************************************************)
EXTENDS Naturals, Sequences, FiniteSets

\* User commands in all: sweeps started, connection dialogs accepted, live-view toggles.
MaxEvents == 3
\* Sweep worker objects alive at once.
MaxWorkers == 2
\* Driver pairs alive at once.
MaxInst == 2
\* Last second of the wall clock (datetime.now() at one-second resolution).
MaxClock == 1

\* Sample values of the live channels: 1..MaxSample on channel A.
MaxSample == 3

\* Most rows of a saved sweep.
MaxRows == 2

\* Most points of a series shown in the sweep plot.
MaxPoints == 20

\* Fitted centers 1..MaxCenter and widths 0..MaxFwhm.
MaxCenter == 2
MaxFwhm == 1

\* update_fit: a region with fewer points is not fitted.
MinFitPoints == 10
\* sigma of make_params, in hundredths of a nanometre.
sigma_guess == 1
\* Amplitudes of a selected region are 0..MaxLevel; its wavelengths are
\* 1..MaxStep units apart.
MaxLevel == 1
MaxStep == 2

\* Sweep parameters: wavelengths 0..MaxNm (nm), speeds 1..MaxSpeed (nm/s),
\* capture sample rates 1..MaxRate (samples/s).
MaxNm == 4
MaxSpeed == 3
MaxRate == 4

\* LivePlotWidget.roll_buffer_size, the capacity of the live buffers (50000
\* in the program)
roll_buffer_size == 3
\* The live curves show the last plot_window samples of the buffers.
plot_window == 2

Workers == 1..MaxWorkers
Insts == 1..MaxInst
Seconds == 0..MaxClock

\* engine.laser / engine.scope / MainWindow.sweep_worker before assignment.
None == 0
\* LivePlotWidget.scope before the first successful connection: the
\* MockScopeDriver() built in setup_live_tab, which is never connected.
Placeholder == 0

VARIABLES
    engine,         \* MeasurementEngine: [laser, scope, mock_mode]
    laser_drv,      \* LaserDriver instances: [mock, connected]
    scope_drv,      \* ScopeDriver instances: [mock, connected, streaming]
    laser_hw,       \* the Santec laser: [emission, shutter_open, sweeping]
    scope_hw,       \* the PicoScope: its acquisition mode
    sweep_worker,   \* MainWindow.sweep_worker (None or the latest worker)
    last_request,   \* outcome of the latest run_sweep call
    pc,             \* position of each SweepWorker in run()
    trig,           \* position of each worker's helper thread (trigger_laser)
    w_laser,        \* SweepWorker.laser
    w_scope,        \* SweepWorker.scope
    w_is_running,   \* SweepWorker._is_running
    data,           \* what capture_block returned to the worker
    path,           \* what autosave_sweep returned to the worker
    emitted,        \* signals the worker has emitted, in order
    ui_result,      \* what on_sweep_finished did with the worker's finished_safe
    live_scope,     \* LivePlotWidget.scope
    is_streaming,   \* LivePlotWidget.is_streaming (= btn_toggle checked, timer active)
    data_buffer_a,  \* LivePlotWidget.data_buffer_a
    data_buffer_b,  \* LivePlotWidget.data_buffer_b
    time_buffer,    \* LivePlotWidget.time_buffer
    curve_a,        \* LivePlotWidget.curve_a: the points it shows
    curve_b,        \* LivePlotWidget.curve_b: the points it shows
    autosaves,      \* files in AUTOSAVE_DIR, by the second in their name
    targets,        \* files in the user's directory, by the second in their name
    now,            \* the wall clock when last read, in seconds
    n_events,       \* user commands so far
    current_wavelengths, \* SweepPlotWidget: the series shown (its length), if any
    lbl_info,       \* SweepPlotWidget.lbl_info
    curve_fit,      \* SweepPlotWidget.curve_fit: empty, or the fitted line
    call            \* the latest call made on a component directly, with its result

engineVars == <<engine, laser_drv, scope_drv>>
hwVars == <<laser_hw, scope_hw>>
workerVars ==
    <<sweep_worker, last_request, pc, trig, w_laser, w_scope, w_is_running, data, path, emitted>>
liveVars == <<live_scope, is_streaming>>
fileVars == <<autosaves, targets, now>>
bufferVars == <<data_buffer_a, data_buffer_b>>
plotVars == <<current_wavelengths, lbl_info, curve_fit>>
liveCurves == <<curve_a, curve_b>>
widgetVars == <<bufferVars, time_buffer, liveCurves, plotVars>>
vars ==
    <<engineVars, hwVars, workerVars, ui_result, liveVars, fileVars, n_events, widgetVars, call>>

----------------------------------------------------------------------------
(* Values *)

\* Positions of SweepWorker.run().
PcValues ==
    {"unborn", "set_power", "set_sweep_params", "turn_on", "start_trigger",
     "capture_block", "run_block", "wait_ready", "get_values", "mock_sleep",
     "join", "stop_sweep", "turn_off", "map", "autosave", "emit_data_ready",
     "emit_finished_safe", "done", "except", "except_stop", "error"}

\* What a block capture holds: the whole sweep, or a series that misses
\* samples of it (its start, or all of it: zero-filled buffers).
Series == {"full", "truncated"}

\* No file of that name.  A file that to_csv wrote has a header line at least.
Absent == <<>>

\* The columns of the DataFrame that autosave_sweep builds.
Columns == <<"Wavelength_nm", "Amplitude_V">>

\* autosave_sweep's return value on a failed write: the empty string.
EmptyPath == <<>>

\* The worker has not called autosave_sweep yet.
NoPath == <<"none">>

AutosavePath(ts) == <<"sweep_autosave", ts>>

----------------------------------------------------------------------------
(* Laser drivers: SantecLaserDriver and MockLaserDriver *)

\* The SCPI writes of each SantecLaserDriver method, in the order sent.
CmdsSetPower == <<":POWer:ATT", ":POWe">>
CmdsSetSweepParams ==
    <<":WAV:SWE:START", ":WAV:SWE:STOP", ":WAV:SWE:SPE", ":WAV:SWE:MOD 1", ":TRIG:OUTP 2">>
CmdsTurnOn == <<":POWer:STATe 1", ":POW:SHUT 0">>
CmdsTurnOff == <<":POW:SHUT 1", ":POWer:STATe 0">>
CmdsStartSweep == <<":WAV:SWE 1">>
CmdsStopSweep == <<":WAV:SWE 0">>
\* disconnect(): stop_sweep(), turn_off(), then resource.close().
CmdsDisconnect == CmdsStopSweep \o CmdsTurnOff

\* The effect of one SCPI write on the laser.
LaserApply(hw, c) ==
    CASE c = ":POWer:STATe 1" -> [hw EXCEPT !.emission = TRUE]
      [] c = ":POWer:STATe 0" -> [hw EXCEPT !.emission = FALSE]
      [] c = ":POW:SHUT 0" -> [hw EXCEPT !.shutter_open = TRUE]
      [] c = ":POW:SHUT 1" -> [hw EXCEPT !.shutter_open = FALSE]
      [] c = ":WAV:SWE 1" -> [hw EXCEPT !.sweeping = TRUE]
      [] c = ":WAV:SWE 0" -> [hw EXCEPT !.sweeping = FALSE]
      [] OTHER -> hw

\* The laser after the first k writes of cmds.
RECURSIVE LaserApplyFirst(_, _, _)
LaserApplyFirst(hw, cmds, k) ==
    IF k = 0 \/ cmds = <<>> THEN hw
    ELSE LaserApplyFirst(LaserApply(hw, Head(cmds)), Tail(cmds), k - 1)

\* The Santec driver's methods without their "if not self._connected: return".
LaserReaches_NoConnectedCheck(i) == i # None /\ ~laser_drv[i].mock

\* A method of driver i sends its writes: the Santec driver returns at once
\* when not connected, the mock driver only prints.
LaserReaches(i) == i # None /\ ~laser_drv[i].mock /\ laser_drv[i].connected

\* The laser after driver i's method sent cmds and the first k writes succeeded.
LaserAfter(i, cmds, k) ==
    IF LaserReaches(i) THEN LaserApplyFirst(laser_hw, cmds, k) ELSE laser_hw

\* The method raised: a write failed, or the worker holds no driver (None).
LaserRaises(i, cmds, k) == i = None \/ (LaserReaches(i) /\ k < Len(cmds))

\* The outcomes of a method call of driver i: how many of its writes succeed
\* (all of them when none is sent).
Outcomes(i, cmds) == IF LaserReaches(i) THEN 0..Len(cmds) ELSE {Len(cmds)}

----------------------------------------------------------------------------
(* Digitizer drivers: PicoScopeDriver and MockScopeDriver *)

ScopeModes ==
    {"closed", "idle", "streaming", "armed", "triggered", "ready_full", "ready_truncated"}

\* Driver i holds the open handle of the PicoScope.
ScopeHandleOpen(i) == i # None /\ ~scope_drv[i].mock /\ scope_drv[i].connected

\* start_streaming(callback): PicoScopeDriver returns when not connected or
\* already streaming, else ps5000aRunStreaming; MockScopeDriver sets the flag
\* (its runner thread calls the callback, which the widget passes as None).
StartStreamingRuns(i) ==
    IF scope_drv[i].mock THEN ~scope_drv[i].streaming
    ELSE scope_drv[i].connected /\ ~scope_drv[i].streaming

DrvAfterStartStreaming(i) ==
    IF StartStreamingRuns(i) THEN [scope_drv EXCEPT ![i].streaming = TRUE] ELSE scope_drv

HwAfterStartStreaming(i) ==
    IF StartStreamingRuns(i) /\ ScopeHandleOpen(i) THEN "streaming" ELSE scope_hw

\* stop_streaming(): PicoScopeDriver calls ps5000aStop when streaming;
\* MockScopeDriver clears the flag.
DrvAfterStopStreaming(i) == [scope_drv EXCEPT ![i].streaming = FALSE]

HwAfterStopStreaming(i) ==
    IF scope_drv[i].streaming /\ ScopeHandleOpen(i) THEN "idle" ELSE scope_hw

\* The laser's trigger-out pulse at sweep start reaches the digitizer.
HwAfterTrigger(hw) == IF hw = "armed" THEN "triggered" ELSE hw

\* ps5000aGetValues: the series in the driver's buffers.
ReadBlock(i) ==
    IF ScopeHandleOpen(i) /\ scope_hw = "ready_full" THEN "full" ELSE "truncated"

----------------------------------------------------------------------------
\* np.zeros(self.roll_buffer_size)
ZeroBuffer == [k \in 1..roll_buffer_size |-> 0]

\* The length of the window of the live view, in seconds.
WindowSeconds == 5

\* np.linspace(0, 5, self.roll_buffer_size): the k-th of evenly spaced
\* instants from 0 to 5 s, in units of 1 / (roll_buffer_size - 1) s.
TimeAxis == [k \in 1..roll_buffer_size |-> WindowSeconds * (k - 1)]

\* A curve of the live plot before its first setData.
EmptyCurve == [x |-> <<>>, y |-> <<>>]

\* No component has been called directly.
NoCall == [op |-> "none"]

\* SweepPlotWidget.current_wavelengths is None.
NoData == [loaded |-> FALSE, len |-> 0]

(* Initial state: MainWindow.__init__ has built the engine and the widgets *)

\* A driver object as its constructor leaves it.
BlankLaser == [mock |-> FALSE, connected |-> FALSE]
BlankScope == [mock |-> FALSE, connected |-> FALSE, streaming |-> FALSE]

\* No driver object is connected.
InitDrivers ==
    /\ laser_drv = [i \in Insts |-> BlankLaser]
    /\ scope_drv = [i \in Insts |-> BlankScope]

\* The engine holds no drivers, the digitizer is closed, and the live widget
\* holds its placeholder and does not stream.
InitLive ==
    /\ engine = [laser |-> None, scope |-> None, mock_mode |-> FALSE]
    /\ scope_hw = "closed"
    /\ live_scope = Placeholder
    /\ is_streaming = FALSE

\* No sweep has run, nothing is staged or saved, the live buffers are zero.
InitRun ==
    /\ laser_hw = [emission |-> FALSE, shutter_open |-> FALSE, sweeping |-> FALSE]
    /\ sweep_worker = None
    /\ last_request = "none"
    /\ pc = [w \in Workers |-> "unborn"]
    /\ trig = [w \in Workers |-> "unborn"]
    /\ w_laser = [w \in Workers |-> None]
    /\ w_scope = [w \in Workers |-> None]
    /\ w_is_running = [w \in Workers |-> TRUE]
    /\ data = [w \in Workers |-> "none"]
    /\ path = [w \in Workers |-> NoPath]
    /\ emitted = [w \in Workers |-> <<>>]
    /\ ui_result = [w \in Workers |-> "none"]
    /\ autosaves = [ts \in Seconds |-> Absent]
    /\ targets = [ts \in Seconds |-> Absent]
    /\ now = 0
    /\ n_events = 0
    /\ data_buffer_a = ZeroBuffer
    /\ data_buffer_b = ZeroBuffer
    /\ time_buffer = TimeAxis
    /\ curve_a = EmptyCurve
    /\ curve_b = EmptyCurve
    /\ current_wavelengths = NoData
    /\ lbl_info = [text |-> "No Data. Run a sweep to begin."]
    /\ curve_fit = "empty"
    /\ call = NoCall

Init == InitDrivers /\ InitLive /\ InitRun

----------------------------------------------------------------------------
(* GUI thread: MainWindow and MeasurementEngine *)

\* A worker that counts as running until its run() has returned normally.
isRunning_UntilCompleted(w) == pc[w] \notin {"unborn", "done"}

\* QThread.isRunning(): from start() until run() has returned.
isRunning(w) == pc[w] \notin {"unborn", "done", "error"}

\* run_sweep without its guard.
SweepActive_NoGuard == FALSE

\* The guard of run_sweep: a worker exists and is running.
SweepActive == sweep_worker # None /\ isRunning(sweep_worker)

\* A worker object nothing refers to any more: its run() has returned, its
\* helper thread has ended and its finished_safe has been delivered.
WorkerFree(w) ==
    /\ ~isRunning(w)
    /\ trig[w] # "sleeping"
    /\ ~(pc[w] = "done" /\ ui_result[w] = "none")

\* The worker object SweepWorker(...) creates.
NewWorker == CHOOSE w \in Workers : WorkerFree(w) /\ \A v \in Workers : WorkerFree(v) => w <= v

\* Creating a worker: the fields of the new object, and of the objects that are garbage.
Fresh(f, w, new, blank) ==
    [v \in Workers |-> IF v = w THEN new ELSE IF WorkerFree(v) THEN blank ELSE f[v]]

\* MainWindow.run_sweep with MeasurementEngine.start_sweep and QThread.start():
\* returns at once while a worker is running, else creates a worker on the
\* engine's current drivers and starts it.
RunSweep ==
    IF SweepActive
    THEN /\ last_request' = "rejected"
         /\ UNCHANGED <<engineVars, hwVars, sweep_worker, pc, trig, w_laser, w_scope, w_is_running,
                        data, path, emitted, ui_result, liveVars, fileVars, n_events, widgetVars, call>>
    ELSE /\ n_events < MaxEvents
         /\ \E w \in Workers : WorkerFree(w)
         /\ n_events' = n_events + 1
         /\ LET w == NewWorker IN
            /\ sweep_worker' = w
            /\ w_laser' = Fresh(w_laser, w, engine.laser, None)
            /\ w_scope' = Fresh(w_scope, w, engine.scope, None)
            /\ w_is_running' = Fresh(w_is_running, w, TRUE, TRUE)
            /\ pc' = Fresh(pc, w, "set_power", "unborn")
            /\ trig' = Fresh(trig, w, "unborn", "unborn")
            /\ data' = Fresh(data, w, "none", "none")
            /\ path' = Fresh(path, w, NoPath, NoPath)
            /\ emitted' = Fresh(emitted, w, <<>>, <<>>)
            /\ ui_result' = Fresh(ui_result, w, "none", "none")
         /\ last_request' = "accepted"
         /\ UNCHANGED <<engineVars, hwVars, liveVars, fileVars, widgetVars, call>>

\* LaserDriver.disconnect() of the engine's laser: the Santec driver stops the
\* sweep, turns the laser off and closes the session, swallowing any failure.
LaserDrvAfterDisconnect(i) ==
    IF i = None THEN laser_drv ELSE [laser_drv EXCEPT ![i].connected = FALSE]

\* ScopeDriver.disconnect(): stop_streaming(), ps5000aCloseUnit (PicoScope,
\* when connected), then not connected.
ScopeDrvAfterDisconnect(i) ==
    IF i = None THEN scope_drv
    ELSE [scope_drv EXCEPT ![i].connected = FALSE,
                           ![i].streaming =
                               IF scope_drv[i].mock \/ scope_drv[i].connected
                               THEN FALSE ELSE scope_drv[i].streaming]

ScopeHwAfterDisconnect(i) == IF ScopeHandleOpen(i) THEN "closed" ELSE scope_hw

\* MeasurementEngine.initialize_drivers(laser_config, scope_config, force_mock):
\* disconnects the drivers it holds, creates a new pair and connects the laser,
\* then the digitizer.  laser_ok / scope_ok: whether the instrument answers;
\* k: how many writes of the old laser's disconnect() succeed.
\* The result is (True, ...) iff both connects returned.
InitLaserConnected(force_mock, laser_ok) == force_mock \/ laser_ok

InitScopeConnected(force_mock, laser_ok, scope_ok) ==
    InitLaserConnected(force_mock, laser_ok) /\ (force_mock \/ scope_ok)

\* A result that is True as soon as the laser has connected.
InitSuccess_LaserOnly(force_mock, laser_ok, scope_ok) ==
    InitLaserConnected(force_mock, laser_ok)

InitSuccess(force_mock, laser_ok, scope_ok) ==
    InitLaserConnected(force_mock, laser_ok) /\ InitScopeConnected(force_mock, laser_ok, scope_ok)

\* A driver object something still refers to: the engine, the live widget, or
\* a worker that is not garbage.
InstInUse(i) ==
    \/ engine.laser = i
    \/ live_scope = i
    \/ \E w \in Workers : ~WorkerFree(w) /\ w_laser[w] = i

\* The driver pair initialize_drivers creates.
NewInst == CHOOSE i \in Insts : ~InstInUse(i) /\ \A j \in Insts : ~InstInUse(j) => i <= j


initialize_drivers(force_mock, laser_ok, scope_ok, k) ==
    /\ n_events < MaxEvents
    /\ \E i \in Insts : ~InstInUse(i)
    /\ n_events' = n_events + 1
    /\ LET n == NewInst
           old_l == LaserDrvAfterDisconnect(engine.laser)
           old_s == ScopeDrvAfterDisconnect(engine.scope)
       IN
       /\ laser_hw' = LaserAfter(engine.laser, CmdsDisconnect, k)
       /\ laser_drv' =
            [i \in Insts |->
                IF i = n THEN [mock |-> force_mock,
                               connected |-> InitLaserConnected(force_mock, laser_ok)]
                ELSE IF InstInUse(i) THEN old_l[i] ELSE BlankLaser]
       /\ scope_drv' =
            [i \in Insts |->
                IF i = n THEN [mock |-> force_mock,
                               connected |-> InitScopeConnected(force_mock, laser_ok, scope_ok),
                               streaming |-> FALSE]
                ELSE IF InstInUse(i) THEN old_s[i] ELSE BlankScope]
       /\ scope_hw' = IF ~force_mock /\ InitScopeConnected(force_mock, laser_ok, scope_ok)
                      THEN "idle"
                      ELSE ScopeHwAfterDisconnect(engine.scope)
       /\ engine' = [laser |-> n, scope |-> n, mock_mode |-> force_mock]

\* What the dialog and the instruments may answer: mock drivers chosen (the
\* mock connects always succeed), or real drivers with the laser failing (the
\* digitizer is then not tried), the digitizer failing, or both connecting.
ConnectOutcomes ==
    {<<TRUE, TRUE, TRUE>>, <<FALSE, FALSE, FALSE>>, <<FALSE, TRUE, FALSE>>, <<FALSE, TRUE, TRUE>>}

\* MainWindow.show_connection_dialog with the dialog accepted: initialize the
\* drivers and, on success, hand the new digitizer to the live widget.
ShowConnectionDialog ==
    \E c \in ConnectOutcomes : \E k \in Outcomes(engine.laser, CmdsDisconnect) :
      LET force_mock == c[1]
          laser_ok == c[2]
          scope_ok == c[3]
      IN
        /\ initialize_drivers(force_mock, laser_ok, scope_ok, k)
        /\ live_scope' = IF InitSuccess(force_mock, laser_ok, scope_ok)
                         THEN NewInst ELSE live_scope
        /\ UNCHANGED <<workerVars, ui_result, is_streaming, fileVars, widgetVars, call>>

----------------------------------------------------------------------------
(* SweepWorker.run(): one step per driver call *)

Goto(w, l) == pc' = [pc EXCEPT ![w] = l]

Emit(w, sig) == emitted' = [emitted EXCEPT ![w] = Append(@, sig)]

\* A laser method called from run()'s try block: cmds are sent through the
\* worker's laser; run() continues at next, or at the except clause if the
\* method raised.
LaserStep(w, at, cmds, next) ==
    /\ pc[w] = at
    /\ \E k \in Outcomes(w_laser[w], cmds) :
        /\ laser_hw' = LaserAfter(w_laser[w], cmds, k)
        /\ Goto(w, IF LaserRaises(w_laser[w], cmds, k) THEN "except" ELSE next)
    /\ UNCHANGED <<engineVars, scope_hw, sweep_worker, last_request, trig, w_laser,
                   w_scope, w_is_running, data, path, emitted, ui_result, liveVars, fileVars, n_events, widgetVars, call>>

\* 1. Configure Laser
SetPower(w) == LaserStep(w, "set_power", CmdsSetPower, "set_sweep_params")

\* A run that starts its capture without enabling the emission.
SetSweepParams_SkipArming(w) ==
    LaserStep(w, "set_sweep_params", CmdsSetSweepParams, "start_trigger")

SetSweepParams(w) == LaserStep(w, "set_sweep_params", CmdsSetSweepParams, "turn_on")

\* 3. Arm Systems: laser.turn_on(), then the warm-up sleep
TurnOn(w) == LaserStep(w, "turn_on", CmdsTurnOn, "start_trigger")

\* trigger_thread.start()
StartTrigger(w) ==
    /\ pc[w] = "start_trigger"
    /\ trig' = [trig EXCEPT ![w] = "sleeping"]
    /\ Goto(w, "capture_block")
    /\ UNCHANGED <<engineVars, hwVars, sweep_worker, last_request, w_laser, w_scope, w_is_running,
                   data, path, emitted, ui_result, liveVars, fileVars, n_events, widgetVars, call>>

\* trigger_laser() on the helper thread: sleep, then laser.start_sweep().  A
\* sweep start that reaches the laser pulses its trigger-out line.
TriggerLaser(w) ==
    /\ trig[w] = "sleeping"
    /\ \E k \in Outcomes(w_laser[w], CmdsStartSweep) :
        /\ laser_hw' = LaserAfter(w_laser[w], CmdsStartSweep, k)
        /\ scope_hw' = IF LaserReaches(w_laser[w]) /\ k = Len(CmdsStartSweep)
                       THEN HwAfterTrigger(scope_hw) ELSE scope_hw
    /\ trig' = [trig EXCEPT ![w] = "done"]
    /\ UNCHANGED <<engineVars, sweep_worker, last_request, pc, w_laser, w_scope, w_is_running,
                   data, path, emitted, ui_result, liveVars, fileVars, n_events, widgetVars, call>>

\* capture_block() up to the block start.  PicoScopeDriver raises when not
\* connected and stops any streaming; MockScopeDriver goes straight to its
\* sleep.  A worker without a digitizer (None) raises.
CaptureBlockEnter(w) ==
    /\ pc[w] = "capture_block"
    /\ LET i == w_scope[w] IN
       IF i = None
       THEN Goto(w, "except") /\ UNCHANGED <<scope_drv, scope_hw, widgetVars, call>>
       ELSE IF scope_drv[i].mock
       THEN Goto(w, "mock_sleep") /\ UNCHANGED <<scope_drv, scope_hw, widgetVars, call>>
       ELSE IF ~scope_drv[i].connected
       THEN Goto(w, "except") /\ UNCHANGED <<scope_drv, scope_hw, widgetVars, call>>
       ELSE /\ scope_drv' = DrvAfterStopStreaming(i)
            /\ scope_hw' = HwAfterStopStreaming(i)
            /\ Goto(w, "run_block")
    /\ UNCHANGED <<engine, laser_drv, laser_hw, sweep_worker, last_request, trig,
                   w_laser, w_scope, w_is_running, data, path, emitted, ui_result, liveVars, fileVars, n_events, widgetVars, call>>

\* ps5000aRunBlock: the digitizer is armed (the call's status is not looked at).
RunBlock(w) ==
    /\ pc[w] = "run_block"
    /\ scope_hw' = IF ScopeHandleOpen(w_scope[w]) THEN "armed" ELSE scope_hw
    /\ Goto(w, "wait_ready")
    /\ UNCHANGED <<engineVars, laser_hw, sweep_worker, last_request, trig, w_laser,
                   w_scope, w_is_running, data, path, emitted, ui_result, liveVars, fileVars, n_events, widgetVars, call>>

\* ps5000aIsReady reports the block complete.
BlockReady(i) ==
    ScopeHandleOpen(i) /\ scope_hw \in {"ready_full", "ready_truncated"}

\* while ready.value == 0: ps5000aIsReady(...); time.sleep(0.01)
WaitReady(w) ==
    /\ pc[w] = "wait_ready"
    /\ IF BlockReady(w_scope[w]) THEN Goto(w, "get_values") ELSE UNCHANGED pc
    /\ UNCHANGED <<engineVars, hwVars, sweep_worker, last_request, trig, w_laser,
                   w_scope, w_is_running, data, path, emitted, ui_result, liveVars, fileVars, n_events, widgetVars, call>>

\* ps5000aSetDataBuffer, ps5000aGetValues, conversion; capture_block returns.
GetValues(w) ==
    /\ pc[w] = "get_values"
    /\ data' = [data EXCEPT ![w] = ReadBlock(w_scope[w])]
    /\ scope_hw' = IF ScopeHandleOpen(w_scope[w]) THEN "idle" ELSE scope_hw
    /\ Goto(w, "join")
    /\ UNCHANGED <<engineVars, laser_hw, sweep_worker, last_request, trig, w_laser,
                   w_scope, w_is_running, path, emitted, ui_result, liveVars, fileVars, n_events, widgetVars, call>>

\* MockScopeDriver.capture_block: sleep(duration_s), then a synthetic series.
MockCapture(w) ==
    /\ pc[w] = "mock_sleep"
    /\ data' = [data EXCEPT ![w] = "full"]
    /\ Goto(w, "join")
    /\ UNCHANGED <<engineVars, hwVars, sweep_worker, last_request, trig, w_laser,
                   w_scope, w_is_running, path, emitted, ui_result, liveVars, fileVars, n_events, widgetVars, call>>

\* A join that does not wait for the helper thread.
Join_NoWait(w) ==
    /\ pc[w] = "join"
    /\ Goto(w, "stop_sweep")
    /\ UNCHANGED <<engineVars, hwVars, sweep_worker, last_request, trig, w_laser,
                   w_scope, w_is_running, data, path, emitted, ui_result, liveVars, fileVars, n_events, widgetVars, call>>

\* trigger_thread.join()
Join(w) ==
    /\ pc[w] = "join"
    /\ trig[w] = "done"
    /\ Goto(w, "stop_sweep")
    /\ UNCHANGED <<engineVars, hwVars, sweep_worker, last_request, trig, w_laser,
                   w_scope, w_is_running, data, path, emitted, ui_result, liveVars, fileVars, n_events, widgetVars, call>>

StopSweep(w) == LaserStep(w, "stop_sweep", CmdsStopSweep, "turn_off")

TurnOff(w) == LaserStep(w, "turn_off", CmdsTurnOff, "map")

\* run() notifying before it saves.
Map_NotifyFirst(w) ==
    /\ pc[w] = "map"
    /\ Goto(w, "emit_data_ready")
    /\ UNCHANGED <<engineVars, hwVars, sweep_worker, last_request, trig, w_laser,
                   w_scope, w_is_running, data, path, emitted, ui_result, liveVars, fileVars, n_events, widgetVars, call>>

\* 5. Process Data: wavelengths = start_nm + time_axis * speed, and the mask.
Map(w) ==
    /\ pc[w] = "map"
    /\ Goto(w, "autosave")
    /\ UNCHANGED <<engineVars, hwVars, sweep_worker, last_request, trig, w_laser,
                   w_scope, w_is_running, data, path, emitted, ui_result, liveVars, fileVars, n_events, widgetVars, call>>

----------------------------------------------------------------------------
(* DataManager *)

\* The file a path names exists in AUTOSAVE_DIR.
AutosaveExists(p) == Len(p) = 2 /\ p[1] = "sweep_autosave" /\ autosaves[p[2]] # Absent

\* datetime.now() at a call: the clock has not gone back since it was last read.
ClockReadings == {ts \in Seconds : ts >= now}

\* pd.DataFrame({"Wavelength_nm": wavelengths, "Amplitude_V": signal})
DataFrame(wavelengths, signal) ==
    [columns |-> Columns,
     rows |-> [k \in 1..Len(wavelengths) |-> <<wavelengths[k], signal[k]>>]]

\* The first n samples of a series: the wavelength axis and the amplitudes,
\* which are zero where the capture missed the sweep.
SeriesWavelengths(n) == [k \in 1..n |-> k]
SeriesSignal(series, n) == [k \in 1..n |-> IF series = "full" THEN k ELSE 0]
SweepFrame(series, n) == DataFrame(SeriesWavelengths(n), SeriesSignal(series, n))

\* The text of a number in a CSV field, and the number parsed from a field.
Field(v) == [text |-> v]
Parse(f) == f.text

\* A file written with the index column in front of the data columns.
ToCsv_WithIndex(df) ==
    <<(<<"">> \o df.columns)>> \o
    [k \in 1..Len(df.rows) |->
        <<Field(k - 1)>> \o [j \in 1..Len(df.rows[k]) |-> Field(df.rows[k][j])]]

\* df.to_csv(path, index=False): the header line, then one line a row.
ToCsv(df) ==
    <<df.columns>> \o
    [k \in 1..Len(df.rows) |-> [j \in 1..Len(df.rows[k]) |-> Field(df.rows[k][j])]]

\* pd.read_csv(path): the first line names the columns (a column without a
\* name gets one), each other line is a row.
ReadCsv(file) ==
    [columns |-> [j \in 1..Len(Head(file)) |->
                    IF Head(file)[j] = "" THEN "Unnamed: 0" ELSE Head(file)[j]],
     rows |-> [k \in 1..(Len(file) - 1) |->
                    [j \in 1..Len(file[k + 1]) |-> Parse(file[k + 1][j])]]]

\* The files autosave_sweep can write.
SweepFiles == {ToCsv(SweepFrame(series, n)) : series \in Series, n \in 0..MaxRows}

\* autosave_sweep(wavelengths, signal) at second ts: the file is named by the
\* second; df.to_csv writes it (replacing a file of that name) and the path
\* is returned, or the write fails and "" is returned.
AutosaveFiles(df, ts, write_ok) ==
    IF write_ok THEN [autosaves EXCEPT ![ts] = ToCsv(df)] ELSE autosaves

AutosaveResult(ts, write_ok) == IF write_ok THEN AutosavePath(ts) ELSE EmptyPath

\* move_autosave(autosave_path, target_dir, prefix) returns: the staged file
\* exists, pd.read_csv and df.to_csv succeed.
MoveSucceeds(p, read_ok, write_ok) == AutosaveExists(p) /\ read_ok /\ write_ok

\* move_autosave at second ts: the target is named by the prefix and the second.
TargetsAfterMove(p, ts, read_ok, write_ok) ==
    IF MoveSucceeds(p, read_ok, write_ok)
    THEN [targets EXCEPT ![ts] = ToCsv(ReadCsv(autosaves[p[2]]))] ELSE targets

\* A move that removes the staged file before the target is written.
AutosavesAfterMove_RemoveFirst(p, read_ok, write_ok) ==
    IF AutosaveExists(p) THEN [autosaves EXCEPT ![p[2]] = Absent] ELSE autosaves

\* move_autosave: os.remove(autosave_path) after the target is written.
AutosavesAfterMove(p, read_ok, write_ok) ==
    IF MoveSucceeds(p, read_ok, write_ok)
    THEN [autosaves EXCEPT ![p[2]] = Absent] ELSE autosaves

----------------------------------------------------------------------------
(* SweepWorker.run(): saving, notifications, the except clause *)

\* Autosave: ensure_autosave_dir() may raise (dir_ok = FALSE), which run()
\* catches; a failed write is caught inside autosave_sweep.
Autosave(w) ==
    /\ pc[w] = "autosave"
    /\ \E dir_ok, write_ok \in BOOLEAN : \E ts \in ClockReadings :
        IF dir_ok
        THEN /\ autosaves' = AutosaveFiles(SweepFrame(data[w], MaxRows), ts, write_ok)
             /\ path' = [path EXCEPT ![w] = AutosaveResult(ts, write_ok)]
             /\ now' = ts
             /\ Goto(w, "emit_data_ready")
        ELSE /\ Goto(w, "except")
             /\ UNCHANGED <<autosaves, path, now, widgetVars, call>>
    /\ UNCHANGED <<engineVars, hwVars, sweep_worker, last_request, trig, w_laser,
                   w_scope, w_is_running, data, emitted, ui_result, liveVars, targets, n_events, widgetVars, call>>

\* self.data_ready.emit(wavelengths[mask], signal[mask])
EmitDataReady(w) ==
    /\ pc[w] = "emit_data_ready"
    /\ Emit(w, "data_ready")
    /\ Goto(w, "emit_finished_safe")
    /\ UNCHANGED <<engineVars, hwVars, sweep_worker, last_request, trig, w_laser,
                   w_scope, w_is_running, data, path, ui_result, liveVars, fileVars, n_events, widgetVars, call>>

\* A run that falls into its except clause after it has published its result.
EmitFinishedSafe_ThenError(w) ==
    /\ pc[w] = "emit_finished_safe"
    /\ Emit(w, "finished_safe")
    /\ Goto(w, "except")
    /\ UNCHANGED <<engineVars, hwVars, sweep_worker, last_request, trig, w_laser,
                   w_scope, w_is_running, data, path, ui_result, liveVars, fileVars, n_events, widgetVars, call>>

\* self.finished_safe.emit(path); run() returns
EmitFinishedSafe(w) ==
    /\ pc[w] = "emit_finished_safe"
    /\ Emit(w, "finished_safe")
    /\ Goto(w, "done")
    /\ UNCHANGED <<engineVars, hwVars, sweep_worker, last_request, trig, w_laser,
                   w_scope, w_is_running, data, path, ui_result, liveVars, fileVars, n_events, widgetVars, call>>

\* except Exception as e: self.error_occurred.emit(str(e))
Except(w) ==
    /\ pc[w] = "except"
    /\ Emit(w, "error_occurred")
    /\ Goto(w, "except_stop")
    /\ UNCHANGED <<engineVars, hwVars, sweep_worker, last_request, trig, w_laser,
                   w_scope, w_is_running, data, path, ui_result, liveVars, fileVars, n_events, widgetVars, call>>

\* try: self.laser.stop_sweep() except: pass; run() returns
ExceptStopSweep(w) ==
    /\ pc[w] = "except_stop"
    /\ \E k \in Outcomes(w_laser[w], CmdsStopSweep) :
        laser_hw' = LaserAfter(w_laser[w], CmdsStopSweep, k)
    /\ Goto(w, "error")
    /\ UNCHANGED <<engineVars, scope_hw, sweep_worker, last_request, trig, w_laser,
                   w_scope, w_is_running, data, path, emitted, ui_result, liveVars, fileVars, n_events, widgetVars, call>>

\* The worker has emitted sig.
HasEmitted(w, sig) == \E n \in 1..Len(emitted[w]) : emitted[w][n] = sig

\* MainWindow.on_sweep_finished(autosave_path), the slot of finished_safe:
\* returns on an empty path, else moves the autosave to the user's directory
\* and shows a warning if that raises.
on_sweep_finished(w) ==
    /\ HasEmitted(w, "finished_safe")
    /\ ui_result[w] = "none"
    /\ IF path[w] = EmptyPath
       THEN /\ ui_result' = [ui_result EXCEPT ![w] = "ignored"]
            /\ UNCHANGED <<autosaves, targets, now, widgetVars, call>>
       ELSE \E read_ok, write_ok \in BOOLEAN : \E ts \in ClockReadings :
            /\ now' = IF AutosaveExists(path[w]) THEN ts ELSE now
            /\ targets' = TargetsAfterMove(path[w], ts, read_ok, write_ok)
            /\ autosaves' = AutosavesAfterMove(path[w], read_ok, write_ok)
            /\ ui_result' = [ui_result EXCEPT ![w] =
                                IF MoveSucceeds(path[w], read_ok, write_ok)
                                THEN "saved" ELSE "save_error"]
    /\ UNCHANGED <<engineVars, hwVars, workerVars, liveVars, n_events, widgetVars, call>>

----------------------------------------------------------------------------
(* LivePlotWidget *)

\* The widget's digitizer is connected (the placeholder never is).
LiveScopeConnected == live_scope # Placeholder /\ scope_drv[live_scope].connected

\* toggle_streaming(active) as the slot of the checkable button, so active is
\* the negation of the current state.  Switching on with a digitizer that is
\* not connected unchecks the button again, which runs the slot with False.
toggle_streaming ==
    LET active == ~is_streaming IN
    /\ n_events < MaxEvents
    /\ n_events' = n_events + 1
    /\ IF active /\ LiveScopeConnected
       THEN /\ scope_drv' = DrvAfterStartStreaming(live_scope)
            /\ scope_hw' = HwAfterStartStreaming(live_scope)
            /\ is_streaming' = TRUE
       ELSE /\ scope_drv' = IF live_scope = Placeholder THEN scope_drv
                            ELSE DrvAfterStopStreaming(live_scope)
            /\ scope_hw' = IF live_scope = Placeholder THEN scope_hw
                           ELSE HwAfterStopStreaming(live_scope)
            /\ is_streaming' = FALSE
    /\ UNCHANGED <<engine, laser_drv, laser_hw, workerVars, ui_result, live_scope, fileVars, widgetVars, call>>

\* hasattr(self.scope, "get_streaming_values"): PicoScopeDriver has the
\* method, MockScopeDriver (the placeholder too) has not.
HasPoll(i) == i # Placeholder /\ ~scope_drv[i].mock

\* How many samples per channel a call of get_streaming_values may return:
\* none unless the driver is streaming, else what the digitizer reports.  The
\* widget takes a chunk of any length; lengths up to one more than its
\* capacity reach every branch of update_plot.
ChunkLens(i) ==
    IF scope_drv[i].streaming /\ scope_hw = "streaming"
    THEN 0..(roll_buffer_size + 1)
    ELSE {0}

\* The chunks of n samples the poll may return for channel A, and the chunk
\* of channel B that comes with one of them: the two channels carry
\* different values.
ChunksA(n) == [1..n -> 1..MaxSample]
ChunkB(new_a) == [k \in 1..Len(new_a) |-> new_a[k] + MaxSample]

\* np.roll(buf, -n): the element at position k + n comes to position k, cyclically.
NpRoll(buf, n) == [k \in 1..Len(buf) |-> buf[((k - 1 + n) % Len(buf)) + 1]]

\* buf[-n:] = new
SetTail(buf, new) ==
    [k \in 1..Len(buf) |->
        IF k > Len(buf) - Len(new) THEN new[k - (Len(buf) - Len(new))] ELSE buf[k]]

\* A buffer that is reset by an empty chunk too.
Feed_ResetOnEmpty(buf, new) ==
    IF Len(new) = 0 \/ Len(new) > roll_buffer_size THEN ZeroBuffer
    ELSE SetTail(NpRoll(buf, Len(new)), new)

\* A buffer that grows by the chunk.
Feed_Append(buf, new) ==
    IF Len(new) = 0 THEN buf
    ELSE IF Len(new) > roll_buffer_size THEN ZeroBuffer
    ELSE buf \o new

\* A buffer fed without the shift.
Feed_NoRoll(buf, new) ==
    IF Len(new) = 0 THEN buf
    ELSE IF Len(new) > roll_buffer_size THEN ZeroBuffer
    ELSE SetTail(buf, new)

\* A buffer that keeps the tail of a chunk that is too long.
Feed_KeepTail(buf, new) ==
    IF Len(new) = 0 THEN buf
    ELSE IF Len(new) > roll_buffer_size
         THEN [k \in 1..roll_buffer_size |-> new[k + Len(new) - roll_buffer_size]]
    ELSE SetTail(NpRoll(buf, Len(new)), new)

\* update_plot on one channel buffer: nothing for an empty chunk, a reset for
\* a chunk longer than the buffer, else roll and place the chunk at the tail.
Feed(buf, new) ==
    IF Len(new) = 0 THEN buf
    ELSE IF Len(new) > roll_buffer_size THEN ZeroBuffer
    ELSE SetTail(NpRoll(buf, Len(new)), new)

\* seq[-plot_window:]
LastShown(seq) ==
    IF Len(seq) <= plot_window THEN seq ELSE SubSeq(seq, Len(seq) - plot_window + 1, Len(seq))

\* curve.setData(self.time_buffer[-20000:], buf[-20000:]), which update_plot
\* calls for a chunk that is not empty.
Shown(curve, buf, new) ==
    IF Len(new) = 0 THEN curve ELSE [x |-> LastShown(time_buffer), y |-> LastShown(buf)]

\* LivePlotWidget.update_plot, the slot of the 30 ms timer.  call keeps what
\* the poll returned.
update_plot ==
    /\ IF is_streaming /\ HasPoll(live_scope)
       THEN \E n \in ChunkLens(live_scope) : \E new_a \in ChunksA(n) :
                /\ data_buffer_a' = Feed(data_buffer_a, new_a)
                /\ data_buffer_b' = Feed(data_buffer_b, ChunkB(new_a))
                /\ curve_a' = Shown(curve_a, Feed(data_buffer_a, new_a), new_a)
                /\ curve_b' = Shown(curve_b, Feed(data_buffer_b, ChunkB(new_a)), ChunkB(new_a))
                /\ call' = [op |-> "get_streaming_values", new_a |-> new_a,
                            new_b |-> ChunkB(new_a)]
       ELSE UNCHANGED <<bufferVars, liveCurves, call>>
    /\ UNCHANGED <<engineVars, hwVars, workerVars, ui_result, liveVars, fileVars, n_events,
                   time_buffer, plotVars>>

\* The live view of a connected digitizer, real or mock, before its first toggle.
LiveInit ==
    /\ \E m \in BOOLEAN :
          /\ laser_drv = [i \in Insts |-> IF i = 1 THEN [mock |-> m, connected |-> TRUE]
                                                   ELSE BlankLaser]
          /\ scope_drv = [i \in Insts |->
                            IF i = 1 THEN [mock |-> m, connected |-> TRUE, streaming |-> FALSE]
                            ELSE BlankScope]
          /\ engine = [laser |-> 1, scope |-> 1, mock_mode |-> m]
          /\ scope_hw = IF m THEN "closed" ELSE "idle"
    /\ live_scope = 1
    /\ is_streaming = FALSE
    /\ InitRun

LiveNext == toggle_streaming \/ update_plot

\* The live view: the toggle button and the timer.
LiveSpec == LiveInit /\ [][LiveNext]_vars

----------------------------------------------------------------------------
(* Environment *)

\* The digitizer finishes the block.  capture_block configures no trigger and
\* reads no status, so what a finished block holds is the instrument's
\* business: the whole sweep if it started sampling at the laser's trigger
\* edge, else a series that misses samples of the sweep.
BlockComplete ==
    /\ \/ scope_hw = "triggered" /\ scope_hw' = "ready_full"
       \/ scope_hw = "armed" /\ scope_hw' = "ready_truncated"
    /\ UNCHANGED <<engineVars, laser_hw, workerVars, ui_result, liveVars, fileVars, n_events, widgetVars, call>>

----------------------------------------------------------------------------
(* Specification *)

WorkerStep(w) ==
    \/ SetPower(w)
    \/ SetSweepParams(w)
    \/ TurnOn(w)
    \/ StartTrigger(w)
    \/ CaptureBlockEnter(w)
    \/ RunBlock(w)
    \/ WaitReady(w)
    \/ GetValues(w)
    \/ MockCapture(w)
    \/ Join(w)
    \/ StopSweep(w)
    \/ TurnOff(w)
    \/ Map(w)
    \/ Autosave(w)
    \/ EmitDataReady(w)
    \/ EmitFinishedSafe(w)
    \/ Except(w)
    \/ ExceptStopSweep(w)

Next ==
    \/ RunSweep
    \/ ShowConnectionDialog
    \/ toggle_streaming
    \/ \E w \in Workers : WorkerStep(w)
    \/ \E w \in Workers : TriggerLaser(w)
    \/ \E w \in Workers : on_sweep_finished(w)
    \/ BlockComplete

Spec == Init /\ [][Next]_vars

\* The digitizer, once triggered, captures for the configured duration and
\* then reports ready.
TriggeredBlockComplete == scope_hw = "triggered" /\ BlockComplete

\* Scheduling: every thread that can take a step eventually takes one, the Qt
\* event loop delivers queued signals, and a triggered capture finishes.
\* Nothing obliges the user to act, or the digitizer to finish a block whose
\* trigger edge it has not seen.
FairSpec ==
    /\ Spec
    /\ \A w \in Workers : WF_vars(WorkerStep(w))
    /\ \A w \in Workers : WF_vars(TriggerLaser(w))
    /\ \A w \in Workers : WF_vars(on_sweep_finished(w))
    /\ WF_vars(TriggeredBlockComplete)

----------------------------------------------------------------------------
(* The drivers called directly *)

\* One real and one mock driver pair (more with more instances), as their
\* constructors leave them.
DriverInit ==
    /\ laser_drv = [i \in Insts |-> [BlankLaser EXCEPT !.mock = (i % 2 = 0)]]
    /\ scope_drv = [i \in Insts |-> [BlankScope EXCEPT !.mock = (i % 2 = 0)]]
    /\ InitLive
    /\ InitRun

LaserMethods == {"turn_on", "turn_off", "start_sweep", "stop_sweep"}

\* The SCPI writes of a laser method.
MethodCmds(m) ==
    CASE m = "turn_on" -> CmdsTurnOn
      [] m = "turn_off" -> CmdsTurnOff
      [] m = "start_sweep" -> CmdsStartSweep
      [] m = "stop_sweep" -> CmdsStopSweep

DriverIdle ==
    UNCHANGED <<engine, workerVars, ui_result, liveVars, fileVars, n_events, widgetVars>>

\* laser.connect(config): the Santec driver opens the resource, queries *IDN?
\* and is connected, or raises InstrumentConnectionError; the mock connects.
LaserConnectCall(i, ok) ==
    /\ laser_drv' = [laser_drv EXCEPT ![i].connected = laser_drv[i].mock \/ ok]
    /\ call' = [op |-> "laser.connect", inst |-> i, raised |-> ~laser_drv[i].mock /\ ~ok]
    /\ UNCHANGED <<scope_drv, hwVars>>
    /\ DriverIdle

\* laser.turn_on(), turn_off(), start_sweep(), stop_sweep()
LaserMethodCall(i, m) ==
    \E k \in Outcomes(i, MethodCmds(m)) :
        /\ laser_hw' = LaserAfter(i, MethodCmds(m), k)
        /\ call' = [op |-> m, inst |-> i, raised |-> LaserRaises(i, MethodCmds(m), k)]
        /\ UNCHANGED <<laser_drv, scope_drv, scope_hw>>
        /\ DriverIdle

\* laser.disconnect(): stop_sweep(), turn_off() and resource.close() inside one
\* try whose except clause passes; then the driver is not connected.  The
\* first write that fails ends the sequence.
LaserDisconnectCall(i) ==
    \E k \in Outcomes(i, CmdsDisconnect) :
        /\ laser_hw' = LaserAfter(i, CmdsDisconnect, k)
        /\ laser_drv' = LaserDrvAfterDisconnect(i)
        /\ call' = [op |-> "laser.disconnect", inst |-> i, raised |-> FALSE]
        /\ UNCHANGED <<scope_drv, scope_hw>>
        /\ DriverIdle

\* scope.connect(config)
ScopeConnectCall(i, ok) ==
    /\ scope_drv' = [scope_drv EXCEPT ![i].connected = scope_drv[i].mock \/ ok]
    /\ scope_hw' = IF scope_drv[i].mock THEN scope_hw
                   ELSE IF ok THEN (IF scope_hw = "closed" THEN "idle" ELSE scope_hw)
                   ELSE scope_hw
    /\ call' = [op |-> "scope.connect", inst |-> i, raised |-> ~scope_drv[i].mock /\ ~ok]
    /\ UNCHANGED <<laser_drv, laser_hw>>
    /\ DriverIdle

\* scope.start_streaming(callback)
StartStreamingCall(i) ==
    /\ scope_drv' = DrvAfterStartStreaming(i)
    /\ scope_hw' = HwAfterStartStreaming(i)
    /\ call' = [op |-> "start_streaming", inst |-> i, raised |-> FALSE]
    /\ UNCHANGED <<laser_drv, laser_hw>>
    /\ DriverIdle

\* scope.stop_streaming()
StopStreamingCall(i) ==
    /\ scope_drv' = DrvAfterStopStreaming(i)
    /\ scope_hw' = HwAfterStopStreaming(i)
    /\ call' = [op |-> "stop_streaming", inst |-> i, raised |-> FALSE]
    /\ UNCHANGED <<laser_drv, laser_hw>>
    /\ DriverIdle

DriverNext ==
    \E i \in Insts :
        \/ \E ok \in BOOLEAN : LaserConnectCall(i, ok)
        \/ \E m \in LaserMethods : LaserMethodCall(i, m)
        \/ LaserDisconnectCall(i)
        \/ \E ok \in BOOLEAN : ScopeConnectCall(i, ok)
        \/ StartStreamingCall(i)
        \/ StopStreamingCall(i)

DriverSpec == DriverInit /\ [][DriverNext]_vars

----------------------------------------------------------------------------
(* Connecting: the drivers' connect and the engine's initialize_drivers *)

\* The second element of initialize_drivers' result: str(e) of the
\* InstrumentConnectionError, or the success text.
InitMessage(force_mock, laser_ok, scope_ok) ==
    IF InitSuccess(force_mock, laser_ok, scope_ok) THEN "Connected successfully"
    ELSE IF ~InitLaserConnected(force_mock, laser_ok) THEN "Failed to connect to Santec Laser"
    ELSE "PicoScope Error"

\* MeasurementEngine.initialize_drivers called directly, with its result.
InitializeDriversCall ==
    \E c \in ConnectOutcomes : \E k \in Outcomes(engine.laser, CmdsDisconnect) :
        /\ initialize_drivers(c[1], c[2], c[3], k)
        /\ call' = [op |-> "initialize_drivers", inst |-> NewInst,
                    success |-> InitSuccess(c[1], c[2], c[3]),
                    message |-> InitMessage(c[1], c[2], c[3])]
        /\ UNCHANGED <<workerVars, ui_result, liveVars, fileVars, widgetVars>>

ConnectNext ==
    \/ InitializeDriversCall
    \/ \E i \in Insts : \E ok \in BOOLEAN : LaserConnectCall(i, ok)
    \/ \E i \in Insts : \E ok \in BOOLEAN : ScopeConnectCall(i, ok)

ConnectSpec == Init /\ [][ConnectNext]_vars

----------------------------------------------------------------------------
(* SweepPlotWidget *)

\* model.fit and result.eval did not run, raised, or returned a center and a
\* width.
NoFit == [fit |-> "none", center |-> 0, fwhm |-> 0]

FitOutcomes ==
    {[fit |-> "raised", center |-> 0, fwhm |-> 0]} \cup
    {[fit |-> "returned", center |-> c, fwhm |-> f] : c \in 1..MaxCenter, f \in 0..MaxFwhm}

\* q_factor = center / fwhm if fwhm != 0 else 0, as a fraction.
QFactor(center, fwhm) == IF fwhm # 0 THEN <<center, fwhm>> ELSE <<0, 1>>

\* update_fit gets to its try block: there is a series and the region holds
\* MinFitPoints points at least.
FitRuns(series, n) == series.loaded /\ n >= MinFitPoints

\* What happened to the fit of a region of n points.
FitOf(series, n, o) == IF FitRuns(series, n) THEN o ELSE NoFit

\* The label after update_fit.
LabelAfterFit(series, lbl, n, o) ==
    IF ~FitRuns(series, n) THEN lbl
    ELSE IF o.fit = "raised" THEN [text |-> "Fit Failed"]
    ELSE [text |-> "Fit Results", center |-> o.center, q |-> QFactor(o.center, o.fwhm)]

\* The fitted line after update_fit.
CurveAfterFit(series, curve, n, o) ==
    IF FitRuns(series, n) /\ o.fit = "returned" THEN "fit" ELSE curve

\* The regions of a series of len points that are looked at: empty, the whole
\* series, and the sizes next to MinFitPoints.
RegionSizes(len) == {0, len} \cup ({MinFitPoints - 1, MinFitPoints} \cap 0..len)

\* The points in the region set_data selects, (wavelengths[mid - span],
\* wavelengths[mid + span]), of a series of distinct wavelengths.
CenterRegion(len) == 2 * (len \div 4) + 1

PlotIdle ==
    UNCHANGED <<engineVars, hwVars, workerVars, ui_result, liveVars, fileVars, n_events,
                bufferVars, time_buffer, liveCurves>>

\* An update_fit that forgets the series when no fit comes out of it.
update_fit_ForgetsSeries ==
    /\ \E n \in RegionSizes(current_wavelengths.len) : \E o \in FitOutcomes :
        /\ lbl_info' = LabelAfterFit(current_wavelengths, lbl_info, n, o)
        /\ curve_fit' = CurveAfterFit(current_wavelengths, curve_fit, n, o)
        /\ call' = [op |-> "update_fit", n |-> n,
                    outcome |-> FitOf(current_wavelengths, n, o)]
        /\ current_wavelengths' =
              IF FitOf(current_wavelengths, n, o).fit = "returned" THEN current_wavelengths
              ELSE NoData
    /\ PlotIdle

\* SweepPlotWidget.update_fit, the slot of the region's sigRegionChanged.
update_fit ==
    /\ \E n \in RegionSizes(current_wavelengths.len) : \E o \in FitOutcomes :
        /\ lbl_info' = LabelAfterFit(current_wavelengths, lbl_info, n, o)
        /\ curve_fit' = CurveAfterFit(current_wavelengths, curve_fit, n, o)
        /\ call' = [op |-> "update_fit", n |-> n,
                    outcome |-> FitOf(current_wavelengths, n, o)]
    /\ UNCHANGED current_wavelengths
    /\ PlotIdle

\* SweepPlotWidget.set_data(wavelengths, signal), the slot of data_ready: shows
\* the series, clears the fit and, for more than one point, selects the
\* center region and calls update_fit.
set_data ==
    /\ \E len \in 0..MaxPoints : \E o \in FitOutcomes :
        LET series == [loaded |-> TRUE, len |-> len]
            loaded == [text |-> "Data Loaded. Drag region to fit."]
        IN
        /\ current_wavelengths' = series
        /\ IF len > 1
           THEN /\ lbl_info' = LabelAfterFit(series, loaded, CenterRegion(len), o)
                /\ curve_fit' = CurveAfterFit(series, "empty", CenterRegion(len), o)
                /\ call' = [op |-> "set_data", n |-> CenterRegion(len),
                            outcome |-> FitOf(series, CenterRegion(len), o)]
           ELSE /\ lbl_info' = loaded
                /\ curve_fit' = "empty"
                /\ call' = [op |-> "set_data", n |-> len, outcome |-> NoFit]
    /\ PlotIdle

PlotNext == set_data \/ update_fit

PlotSpec == Init /\ [][PlotNext]_vars

----------------------------------------------------------------------------
(* The initial guesses of the fit *)

\* np.abs(a - b)
AbsDiff(a, b) == IF a >= b THEN a - b ELSE b - a

RECURSIVE SumSeq(_)
SumSeq(seq) == IF seq = <<>> THEN 0 ELSE Head(seq) + SumSeq(Tail(seq))

\* np.abs(y_sub - np.mean(y_sub)), in units of 1 / len(y_sub).
Deviations(y_sub) ==
    LET total == SumSeq(y_sub)
    IN  [k \in 1..Len(y_sub) |-> AbsDiff(Len(y_sub) * y_sub[k], total)]

\* np.argmin: the first index of the least element.
ArgMin(seq) ==
    CHOOSE k \in 1..Len(seq) :
        /\ \A j \in 1..Len(seq) : seq[k] <= seq[j]
        /\ \A j \in 1..(k - 1) : seq[j] > seq[k]

\* np.argmax: the first index of the greatest element.
ArgMax(seq) ==
    CHOOSE k \in 1..Len(seq) :
        /\ \A j \in 1..Len(seq) : seq[j] <= seq[k]
        /\ \A j \in 1..(k - 1) : seq[j] < seq[k]

\* The guess at the least amplitude: the center of a dip only.
CenterGuess_ArgMin(x_sub, y_sub) == x_sub[ArgMin(y_sub)]

\* center_guess = x_sub[np.argmax(np.abs(y_sub - np.mean(y_sub)))]
CenterGuess(x_sub, y_sub) == x_sub[ArgMax(Deviations(y_sub))]

\* sigma=0.01, whatever the region.
WidthGuess(x_sub) == sigma_guess

\* x_sub: the wavelengths of n successive samples that are step units apart.
XSub(n, step) == [k \in 1..n |-> k * step]

\* The amplitudes of a region of n samples.
YSubs(n) == [1..n -> 0..MaxLevel]

\* The guesses update_fit makes for a region that holds enough points, the
\* first thing in its try block.
MakeParams ==
    /\ call.op = "none"
    /\ \E step \in 1..MaxStep : \E y_sub \in YSubs(MinFitPoints) :
          call' = [op |-> "make_params", x_sub |-> XSub(MinFitPoints, step), y_sub |-> y_sub,
                   center |-> CenterGuess(XSub(MinFitPoints, step), y_sub),
                   sigma |-> WidthGuess(XSub(MinFitPoints, step))]
    /\ PlotIdle
    /\ UNCHANGED plotVars

GuessSpec == Init /\ [][MakeParams]_vars

----------------------------------------------------------------------------
(* Mapping the captured time axis to wavelengths *)

\* Valid sweep parameters: end > start, speed > 0.
SweepParams ==
    {p \in [start_nm : 0..MaxNm, end_nm : 0..MaxNm, speed_nm_s : 1..MaxSpeed] :
        p.end_nm > p.start_nm}

\* duration = abs(end_nm - start_nm) / speed + 0.5, in units of 1/(2*speed) s.
Duration(p) == 2 * (p.end_nm - p.start_nm) + p.speed_nm_s

\* capture_block: num_samples = int(duration_s * sample_rate)
NumSamples(p, rate) == (Duration(p) * rate) \div (2 * p.speed_nm_s)

\* t = np.linspace(0, duration_s, num_samples) has the step
\* duration / (num_samples - 1); wavelengths are held as multiples of
\* 1/Den nm, so that start_nm + t * speed is exact.
Den(n) == IF n >= 2 THEN 2 * (n - 1) ELSE 1

\* wavelengths = start_nm + (time_axis * speed), sample by sample.
Wavelengths(p, n) == [k \in 1..n |-> p.start_nm * Den(n) + (k - 1) * Duration(p)]

\* The mask without its bounds.
InSweep_NoMask(x, p, n) == TRUE

\* mask = (wavelengths >= start_nm) & (wavelengths <= end_nm)
InSweep(x, p, n) == x >= p.start_nm * Den(n) /\ x <= p.end_nm * Den(n)

\* Wavelengths held at the end of the range where they pass it, as np.clip
\* would leave them.
MaskedWavelengths_Clamped(p, n) ==
    [k \in 1..n |->
        IF Wavelengths(p, n)[k] > p.end_nm * Den(n) THEN p.end_nm * Den(n)
        ELSE Wavelengths(p, n)[k]]

\* wavelengths[mask]
MaskedWavelengths(p, n) == SelectSeq(Wavelengths(p, n), LAMBDA x : InSweep(x, p, n))

\* data["B"]: one amplitude a sample of the time axis; each stands for the
\* sample it was captured as.
Captured(n) == [k \in 1..n |-> k]

\* The mask, sample by sample.
Mask(p, n) == [k \in 1..n |-> InSweep(Wavelengths(p, n)[k], p, n)]

\* arr[mask] for a boolean mask.
RECURSIVE BoolIndex(_, _)
BoolIndex(arr, mask) ==
    IF arr = <<>> \/ mask = <<>> THEN <<>>
    ELSE (IF Head(mask) THEN <<Head(arr)>> ELSE <<>>) \o BoolIndex(Tail(arr), Tail(mask))

\* signal[mask]
MaskedSignal(p, n) == BoolIndex(Captured(n), Mask(p, n))

MapIdle ==
    UNCHANGED <<engineVars, hwVars, workerVars, ui_result, liveVars, fileVars, n_events,
                widgetVars>>

\* run(), from the duration to the masked wavelengths, on a capture at the given rate.
MapCall(p, rate) ==
    /\ call' = [op |-> "map", params |-> p, n_samples |-> NumSamples(p, rate),
                wavelengths |-> MaskedWavelengths(p, NumSamples(p, rate)),
                signal |-> MaskedSignal(p, NumSamples(p, rate))]
    /\ MapIdle

MapNext == \E p \in SweepParams : \E rate \in 1..MaxRate : MapCall(p, rate)

MapSpec == Init /\ [][MapNext]_vars

----------------------------------------------------------------------------
(* Cancellation *)

\* A stop request for the sweep in flight.  SweepWorker has no stop method;
\* the only stop state it holds is the flag _is_running that __init__ sets,
\* so a request is the clearing of that flag.
RequestStop ==
    /\ sweep_worker # None
    /\ isRunning(sweep_worker)
    /\ w_is_running[sweep_worker]
    /\ w_is_running' = [w_is_running EXCEPT ![sweep_worker] = FALSE]
    /\ UNCHANGED <<engineVars, hwVars, sweep_worker, last_request, pc, trig, w_laser, w_scope,
                   data, path, emitted, ui_result, liveVars, fileVars, n_events,
                   widgetVars, call>>

CancelNext == Next \/ RequestStop

\* The application with stop requests.
CancelSpec == Init /\ [][CancelNext]_vars

----------------------------------------------------------------------------
(* DataManager called directly *)

\* FileNotFoundError("Original autosave file missing")
SourceMissing == "Original autosave file missing"

AutosavePaths == {AutosavePath(ts) : ts \in Seconds}

\* A move without the check of the staged file: pd.read_csv raises for it.
MoveRaises_NoExistsCheck(p, read_ok, write_ok) ==
    IF ~AutosaveExists(p) \/ ~read_ok THEN "read_csv"
    ELSE IF ~write_ok THEN "to_csv"
    ELSE "none"

\* What move_autosave raises: for a missing staged file, from pd.read_csv,
\* from df.to_csv, or nothing.
MoveRaises(p, read_ok, write_ok) ==
    IF ~AutosaveExists(p) THEN SourceMissing
    ELSE IF ~read_ok THEN "read_csv"
    ELSE IF ~write_ok THEN "to_csv"
    ELSE "none"

\* discard_autosave(autosave_path)
AutosavesAfterDiscard(p) ==
    IF AutosaveExists(p) THEN [autosaves EXCEPT ![p[2]] = Absent] ELSE autosaves

FileIdle ==
    UNCHANGED <<engineVars, hwVars, workerVars, ui_result, liveVars, widgetVars>>

\* DataManager.autosave_sweep(wavelengths, signal)
autosave_sweep ==
    /\ n_events < MaxEvents
    /\ n_events' = n_events + 1
    /\ \E series \in Series : \E n \in 0..MaxRows :
       \E dir_ok, write_ok \in BOOLEAN : \E ts \in ClockReadings :
        IF dir_ok
        THEN /\ autosaves' = AutosaveFiles(SweepFrame(series, n), ts, write_ok)
             /\ now' = ts
             /\ call' = [op |-> "autosave_sweep", path |-> AutosaveResult(ts, write_ok),
                         raised |-> "none"]
        ELSE /\ call' = [op |-> "autosave_sweep", path |-> NoPath, raised |-> "makedirs"]
             /\ UNCHANGED <<autosaves, now>>
    /\ UNCHANGED targets
    /\ FileIdle

\* DataManager.move_autosave(autosave_path, target_dir, prefix)
move_autosave ==
    /\ n_events < MaxEvents
    /\ n_events' = n_events + 1
    /\ \E p \in AutosavePaths : \E read_ok, write_ok \in BOOLEAN : \E ts \in ClockReadings :
        /\ now' = IF AutosaveExists(p) THEN ts ELSE now
        /\ targets' = TargetsAfterMove(p, ts, read_ok, write_ok)
        /\ autosaves' = AutosavesAfterMove(p, read_ok, write_ok)
        /\ call' = [op |-> "move_autosave", path |-> p,
                    raised |-> MoveRaises(p, read_ok, write_ok),
                    target |-> IF AutosaveExists(p) THEN ts ELSE now]
    /\ FileIdle

\* DataManager.discard_autosave(autosave_path)
discard_autosave ==
    /\ n_events < MaxEvents
    /\ n_events' = n_events + 1
    /\ \E p \in AutosavePaths :
        /\ autosaves' = AutosavesAfterDiscard(p)
        /\ call' = [op |-> "discard_autosave", path |-> p, raised |-> "none"]
    /\ UNCHANGED <<targets, now>>
    /\ FileIdle

FileNext == autosave_sweep \/ move_autosave \/ discard_autosave

FileSpec == Init /\ [][FileNext]_vars

----------------------------------------------------------------------------
(* Properties of a sweep run *)

TypeOK ==
    /\ engine \in [laser : {None} \cup Insts, scope : {None} \cup Insts, mock_mode : BOOLEAN]
    /\ laser_drv \in [Insts -> [mock : BOOLEAN, connected : BOOLEAN]]
    /\ scope_drv \in [Insts -> [mock : BOOLEAN, connected : BOOLEAN, streaming : BOOLEAN]]
    /\ laser_hw \in [emission : BOOLEAN, shutter_open : BOOLEAN, sweeping : BOOLEAN]
    /\ scope_hw \in ScopeModes
    /\ sweep_worker \in {None} \cup Workers
    /\ last_request \in {"none", "accepted", "rejected"}
    /\ pc \in [Workers -> PcValues]
    /\ trig \in [Workers -> {"unborn", "sleeping", "done"}]
    /\ w_laser \in [Workers -> {None} \cup Insts]
    /\ w_scope \in [Workers -> {None} \cup Insts]
    /\ w_is_running \in [Workers -> BOOLEAN]
    /\ data \in [Workers -> {"none"} \cup Series]
    /\ \A w \in Workers : path[w] \in {NoPath, EmptyPath} \cup {AutosavePath(ts) : ts \in Seconds}
    /\ \A w \in Workers : Len(emitted[w]) <= 2
    /\ ui_result \in [Workers -> {"none", "ignored", "saved", "save_error"}]
    /\ live_scope \in {Placeholder} \cup Insts
    /\ is_streaming \in BOOLEAN
    /\ autosaves \in [Seconds -> SweepFiles \cup {Absent}]
    /\ targets \in [Seconds -> SweepFiles \cup {Absent}]
    /\ now \in Seconds
    /\ n_events \in 0..MaxEvents

\* The laser is de-energized: not sweeping, emission off.
LaserDeEnergized == ~laser_hw.sweeping /\ ~laser_hw.emission

\* The worker's capture_block has armed the digitizer (PicoScope: ps5000aRunBlock
\* has been called; mock: the simulated acquisition has begun).
CaptureArmed(w) == pc[w] \in {"wait_ready", "get_values", "mock_sleep", "join"}

\* The worker's block capture is in progress on its digitizer.
CaptureInProgress(w) == pc[w] \in {"wait_ready", "get_values", "mock_sleep"}

\* The worker's helper thread calls laser.start_sweep() in this step.
IssuesStartSweep(w) == trig[w] = "sleeping" /\ trig'[w] = "done"

\* C1: in every interleaving of a sweep run the helper thread issues the
\* laser's start_sweep only after capture_block has armed the digitizer.
C1_StartSweepAfterArmed ==
    [][\A w \in Workers : IssuesStartSweep(w) => CaptureArmed(w)]_vars

\* C2: a run whose capture came back truncated or empty (the trigger edge was
\* missed) ends with an error notification; it never completes normally.
C2_TruncatedCaptureEndsInError ==
    \A w \in Workers :
        (data[w] = "truncated" /\ ~isRunning(w)) =>
            (pc[w] = "error" /\ HasEmitted(w, "error_occurred"))

\* C3: capture_block never blocks for ever: a run that waits for the digitizer
\* eventually ends, Completed or Error, also when the digitizer never becomes ready.
C3_WaitingRunEventuallyEnds ==
    \A w \in Workers : (pc[w] = "wait_ready") ~> (pc[w] \in {"done", "error"})

\* C4: whenever a run ends in Error, the laser is left with its sweep stopped
\* and its emission off.
C4_ErrorLeavesLaserOff ==
    [][\A w \in Workers : (pc[w] # "error" /\ pc'[w] = "error") => LaserDeEnergized']_vars

\* C5: the error notification is published only once the laser is
\* de-energized: it is not sweeping and not emitting when error_occurred has
\* just been emitted.
C5_DeEnergizedBeforeErrorPublished ==
    \A w \in Workers : pc[w] = "except_stop" => LaserDeEnergized

\* C6: in every run that publishes a series, autosave_sweep has been called
\* with that series and has returned before data_ready and finished_safe are
\* emitted; a returned path names a file of the staging directory written no
\* later than the clock's last reading.
C6_AutosaveBeforeNotifications ==
    \A w \in Workers :
        (HasEmitted(w, "data_ready") \/ HasEmitted(w, "finished_safe")) =>
            /\ path[w] # NoPath
            /\ path[w] # EmptyPath =>
                   \E ts \in Seconds : ts <= now /\ path[w] = AutosavePath(ts)

\* A run has published its series after a successful autosave.
C6_Witness ==
    \E w \in Workers :
        /\ HasEmitted(w, "data_ready")
        /\ HasEmitted(w, "finished_safe")
        /\ path[w] # EmptyPath
        /\ AutosaveExists(path[w])

\* C7: a failed autosave write is surfaced as an error: a run whose
\* autosave_sweep could not write the file does not end as a normal completion.
C7_AutosaveFailureIsError ==
    \A w \in Workers :
        (path[w] = EmptyPath /\ ~isRunning(w)) => HasEmitted(w, "error_occurred")

\* The workers whose run() is executing.
Running == {w \in Workers : isRunning(w)}

\* A run_sweep call was rejected in this step.
RejectedRequest == last_request # "rejected" /\ last_request' = "rejected"

\* A worker was created and started in this step.
WorkerStarted == \E w \in Workers : ~isRunning(w) /\ pc'[w] = "set_power"

\* C8: at most one sweep is in flight.  A start request while a run is active
\* is rejected: it creates no worker, sends no driver command and leaves the
\* active run as it is; a worker is created only when no run is active.
C8_OneSweepInFlight ==
    /\ [](Cardinality(Running) <= 1)
    /\ [][RejectedRequest =>
            /\ Running # {}
            /\ UNCHANGED <<engineVars, hwVars, sweep_worker, pc, trig, w_laser, w_scope, w_is_running,
                           data, path, emitted, ui_result, liveVars, fileVars, n_events,
                           widgetVars, call>>]_vars
    /\ [][WorkerStarted => Running = {}]_vars

\* A start request has been rejected while a run is in flight.
C8_Witness == last_request = "rejected" /\ Running # {}

\* A timer tick of the live widget would poll the digitizer:
\* update_plot calls get_streaming_values, which calls
\* ps5000aGetStreamingLatestValues while the driver is streaming.
PollReachesDigitizer(i) ==
    is_streaming /\ live_scope = i /\ ~scope_drv[i].mock /\ scope_drv[i].streaming

\* C9: streaming and a block capture never run together on one digitizer:
\* while a worker's capture is in progress its digitizer is not streaming and
\* no poll reaches it, for the real and for the simulated digitizer.
C9_NoStreamingDuringCapture ==
    \A w \in Workers :
        CaptureInProgress(w) =>
            /\ ~scope_drv[w_scope[w]].streaming
            /\ ~PollReachesDigitizer(w_scope[w])

\* C10: while a sweep run is in flight, initialize_drivers neither disconnects
\* nor replaces the laser and the digitizer the run works with.
C10_DriversKeptDuringSweep ==
    [][\A w \in Workers :
          (isRunning(w) /\ w_laser[w] # None) =>
              /\ engine'.laser = engine.laser
              /\ laser_drv[w_laser[w]].connected => laser_drv'[w_laser[w]].connected
              /\ scope_drv[w_scope[w]].connected => scope_drv'[w_scope[w]].connected]_vars

----------------------------------------------------------------------------
(* Properties of cancellation *)

\* The worker issues, in this step, a command that carries the sweep on: it
\* configures or switches on the laser, arms the digitizer, or starts the sweep.
AdvancesSweep(w) ==
    \/ pc[w] \in {"set_power", "set_sweep_params", "turn_on"} /\ pc'[w] # pc[w] /\ w_laser[w] # None
    \/ pc[w] = "run_block" /\ pc'[w] # pc[w]
    \/ IssuesStartSweep(w) /\ w_laser[w] # None

\* C11: a sweep can be stopped in every state of a run, and after the stop
\* request the run issues no further instrument commands that carry the
\* sweep on (it only stops the laser's sweep and emission and the digitizer).
C11_NoCommandsAfterStop ==
    [][\A w \in Workers : ~w_is_running[w] => ~AdvancesSweep(w)]_vars

----------------------------------------------------------------------------
(* Properties of the drivers *)

StopMethods == {"stop_sweep", "turn_off", "stop_streaming"}

\* The state of the drivers and of the instruments behind them.
DriverState == <<laser_drv, scope_drv, laser_hw, scope_hw>>

\* This step calls stop method m of driver pair i.
StopCalled(m, i) == call'.op = m /\ call'.inst = i

\* The driver sends nothing: it is a mock, or it is not connected.
SendsNothing(m, i) ==
    IF m = "stop_streaming" THEN scope_drv[i].mock \/ ~scope_drv[i].connected
    ELSE laser_drv[i].mock \/ ~laser_drv[i].connected

\* C12: the stop operations are idempotent.  stop_sweep, turn_off and
\* stop_streaming raise nothing when the driver has nothing to send (before
\* connect, before any sweep or streaming, on a mock), stop_streaming never
\* raises, and a call that repeats a call that returned leaves the drivers
\* and the instruments as the first call left them.
C12_StopIsIdempotent ==
    [][\A m \in StopMethods : \A i \in Insts :
          StopCalled(m, i) =>
              /\ SendsNothing(m, i) \/ m = "stop_streaming" => ~call'.raised
              /\ (call.op = m /\ call.inst = i /\ ~call.raised) => DriverState' = DriverState]_vars

\* A stop method has been called before connect and has returned.
C12_Witness ==
    /\ call.op \in StopMethods
    /\ ~call.raised
    /\ ~laser_drv[call.inst].mock
    /\ ~laser_drv[call.inst].connected
    /\ ~scope_drv[call.inst].connected

----------------------------------------------------------------------------
(* Properties of the mapping *)

\* C13: for valid sweep parameters the wavelengths a run saves and publishes
\* are non-decreasing and lie within [start_nm, end_nm].
C13_WavelengthsOrderedAndBounded ==
    call.op = "map" =>
        LET w == call.wavelengths
            den == Den(call.n_samples)
        IN  /\ \A k \in 1..Len(w) :
                    w[k] >= call.params.start_nm * den /\ w[k] <= call.params.end_nm * den
            /\ \A k \in 1..(Len(w) - 1) : w[k] <= w[k + 1]

\* A capture of several samples has been mapped, and the mask has dropped
\* samples taken after the sweep had reached its end.
C13_Witness ==
    /\ call.op = "map"
    /\ Len(call.wavelengths) >= 2
    /\ Len(call.wavelengths) < call.n_samples

\* C29: the mapping drops, and never clamps, every sample whose wavelength
\* start + speed * t is outside [start, end], and drops the same samples from
\* the amplitudes: the two published sequences have the same length, element i
\* of both comes from the same captured sample, in the order of capture, and
\* the samples that are left out are those outside the range.
C29_MaskDropsSameSamples ==
    call.op = "map" =>
        LET w == call.wavelengths
            sig == call.signal
            n == call.n_samples
            all == Wavelengths(call.params, n)
            lo == call.params.start_nm * Den(n)
            hi == call.params.end_nm * Den(n)
        IN  /\ Len(w) = Len(sig)
            /\ \A i \in 1..Len(sig) :
                    \E k \in 1..n : sig[i] = Captured(n)[k] /\ w[i] = all[k]
            /\ \A i \in 1..(Len(sig) - 1) : sig[i] < sig[i + 1]
            /\ \A k \in 1..n :
                    (\E i \in 1..Len(sig) : sig[i] = Captured(n)[k])
                        <=> (all[k] >= lo /\ all[k] <= hi)

\* The mask has dropped samples of a capture from both sequences and has
\* kept the sample that lies on the end of the range.
C29_Witness ==
    /\ call.op = "map"
    /\ Len(call.signal) >= 2
    /\ Len(call.signal) < call.n_samples
    /\ call.wavelengths[Len(call.wavelengths)] = call.params.end_nm * Den(call.n_samples)

----------------------------------------------------------------------------
(* Properties of the live buffers *)

\* This step is a timer tick whose poll returned n samples per channel.
Polled(n) ==
    /\ n_events' = n_events
    /\ call'.op = "get_streaming_values"
    /\ Len(call'.new_a) = n

\* buf_after is buf_before with its n oldest samples dropped, the others moved
\* to the head in their order, and the chunk new at the tail in arrival order.
Shifted(buf_before, buf_after, new) ==
    LET n == Len(new) IN
    /\ Len(buf_after) = Len(buf_before)
    /\ \A k \in 1..(Len(buf_before) - n) : buf_after[k] = buf_before[k + n]
    /\ \A k \in 1..n : buf_after[Len(buf_before) - n + k] = new[k]

\* C14: a chunk longer than the capacity of the live buffers leaves both
\* channel buffers all-zero, whatever they held.
C14_LongChunkZeroesBuffers ==
    [][\A n \in 0..(roll_buffer_size + 1) :
          (n > roll_buffer_size /\ Polled(n)) =>
              /\ \A k \in 1..roll_buffer_size : data_buffer_a'[k] = 0
              /\ \A k \in 1..roll_buffer_size : data_buffer_b'[k] = 0
              /\ Len(data_buffer_a') = roll_buffer_size
              /\ Len(data_buffer_b') = roll_buffer_size]_vars

\* Buffers that held samples have been fed a chunk longer than their capacity.
C14_Witness ==
    /\ call.op = "get_streaming_values"
    /\ Len(call.new_a) > roll_buffer_size
    /\ data_buffer_a = ZeroBuffer
    /\ data_buffer_b = ZeroBuffer

\* C15: a chunk of n samples, 0 < n <= capacity, keeps the length of the
\* live buffers, drops exactly their n oldest samples, moves the others
\* toward the head in their order and puts the new samples at the tail in
\* arrival order, on both channels.
C15_ChunkShiftsBuffers ==
    [][\A n \in 1..roll_buffer_size :
          Polled(n) =>
              /\ Shifted(data_buffer_a, data_buffer_a', call'.new_a)
              /\ Shifted(data_buffer_b, data_buffer_b', call'.new_b)]_vars

\* A chunk shorter than the buffers has been fed and older samples are still held.
C15_Witness ==
    /\ call.op = "get_streaming_values"
    /\ Len(call.new_a) \in 1..(roll_buffer_size - 1)
    /\ data_buffer_a[1] # 0
    /\ data_buffer_b[1] # 0

----------------------------------------------------------------------------
(* Properties of DataManager *)

\* This step is a call of move_autosave.
MoveStep == n_events' = n_events + 1 /\ call'.op = "move_autosave"

\* C16: committing an autosave path that no longer exists fails with the
\* source-missing error, which no other failure gives, and writes nothing to
\* the target directory; so does every commit that follows a discard of the
\* same path.
C16_CommitOfMissingSourceFails ==
    [][(/\ MoveStep
        /\ \/ ~AutosaveExists(call'.path)
           \/ call.op = "discard_autosave" /\ call.path = call'.path)
       => /\ call'.raised = SourceMissing
          /\ call'.raised \notin {"none", "read_csv", "to_csv"}
          /\ targets' = targets
          /\ autosaves' = autosaves]_vars

\* A commit has failed for a missing source while the target directory holds
\* an earlier commit.
C16_Witness ==
    /\ call.op = "move_autosave"
    /\ call.raised = SourceMissing
    /\ ~AutosaveExists(call.path)
    /\ \E ts \in Seconds : targets[ts] # Absent

\* C17: commit deletes the staged file only after the target is written: a
\* commit that fails in reading or writing leaves every staged file as it
\* was, and a commit that removes a staged file has written its target.
C17_StagedFileKeptUntilTargetWritten ==
    [][MoveStep =>
          /\ call'.raised # "none" => autosaves' = autosaves
          /\ autosaves' # autosaves =>
                /\ call'.raised = "none"
                /\ targets'[call'.target] # Absent]_vars

\* A commit has failed in reading or writing and its staged file exists.
C17_Witness ==
    /\ call.op = "move_autosave"
    /\ call.raised \in {"read_csv", "to_csv"}
    /\ AutosaveExists(call.path)

----------------------------------------------------------------------------
(* Properties of the autosave records *)

\* C19: every autosave record eventually leaves the staging directory,
\* committed to the user's directory or discarded; none stays staged for
\* ever, a record whose commit failed included.
C19_StagedRecordEventuallyLeaves ==
    \A ts \in Seconds : (autosaves[ts] # Absent) ~> (autosaves[ts] = Absent)

\* C20: the name of an autosave is unique to its sweep: autosave_sweep never
\* writes over a record that is still staged, also when two sweeps are saved
\* within the same second.
C20_AutosaveNeverOverwritesStaged ==
    [][\A w \in Workers : \A ts \in Seconds :
          (path'[w] # path[w] /\ path'[w] = AutosavePath(ts)) => autosaves[ts] = Absent]_vars

----------------------------------------------------------------------------
(* Properties of the notifications and of the order of a run *)

\* How often the worker has emitted sig.
TimesEmitted(w, sig) == Cardinality({n \in 1..Len(emitted[w]) : emitted[w][n] = sig})

\* C21: the worker publishes one-shot, ordered notifications: in a run
\* data_ready is emitted at most once and only when mapping and autosave_sweep
\* have returned, finished_safe at most once and right after data_ready, and
\* no run emits both a result and error_occurred.
C21_NotificationsOneShotAndOrdered ==
    \A w \in Workers :
        /\ TimesEmitted(w, "data_ready") <= 1
        /\ TimesEmitted(w, "finished_safe") <= 1
        /\ TimesEmitted(w, "error_occurred") <= 1
        /\ HasEmitted(w, "data_ready") =>
              /\ emitted[w][1] = "data_ready"
              /\ data[w] # "none"
              /\ path[w] # NoPath
              /\ pc[w] \in {"emit_finished_safe", "done"}
        /\ HasEmitted(w, "finished_safe") => emitted[w] = <<"data_ready", "finished_safe">>
        /\ HasEmitted(w, "error_occurred") => emitted[w] = <<"error_occurred">>

\* One run has published its result and another its error.
C21_Witness ==
    \E w1, w2 \in Workers :
        /\ emitted[w1] = <<"data_ready", "finished_safe">>
        /\ pc[w1] = "done"
        /\ emitted[w2] = <<"error_occurred">>
        /\ pc[w2] = "error"

\* The states of a sweep run, in their order.
RunStates == <<"Idle", "Configuring", "Arming", "Capturing", "Mapping", "Saving", "Completed">>

\* The state of the run at each statement of run(): "Configuring Laser...",
\* "Arming Trigger...", "Acquiring...", "Processing...", "Saving..." and the
\* notifications of the result; Error is the except clause.
RunState(l) ==
    CASE l = "unborn" -> "Idle"
      [] l \in {"set_power", "set_sweep_params"} -> "Configuring"
      [] l = "turn_on" -> "Arming"
      [] l \in {"start_trigger", "capture_block", "run_block", "wait_ready", "get_values",
                "mock_sleep", "join", "stop_sweep", "turn_off"} -> "Capturing"
      [] l = "map" -> "Mapping"
      [] l = "autosave" -> "Saving"
      [] l \in {"emit_data_ready", "emit_finished_safe", "done"} -> "Completed"
      [] l \in {"except", "except_stop", "error"} -> "Error"

Rank(st) == CHOOSE n \in 1..Len(RunStates) : RunStates[n] = st

\* A step of a run from statement l to statement m keeps the order of the states.
InOrder(l, m) ==
    \/ RunState(m) = RunState(l)
    \/ RunState(m) = "Error" /\ RunState(l) \notin {"Idle", "Completed"}
    \/ /\ RunState(l) # "Error"
       /\ RunState(m) # "Error"
       /\ Rank(RunState(m)) = Rank(RunState(l)) + 1

\* C22: a run visits Configuring, Arming, Capturing, Mapping, Saving and
\* Completed in this order, skipping and repeating none, and may leave to Error
\* from each of them before Completed.  The laser is configured before the
\* emission is enabled; the helper thread that starts the sweep and the capture
\* begin only after turn_on returned; mapping and saving happen only when the
\* capture has returned its series and the helper thread has been joined.
C22_RunStatesInOrder ==
    [][\A w \in Workers :
          /\ pc'[w] # pc[w] =>
                IF isRunning(w) THEN InOrder(pc[w], pc'[w])
                ELSE pc'[w] \in {"unborn", "set_power"}
          /\ RunState(pc'[w]) \in {"Configuring", "Arming"} =>
                trig'[w] = "unborn" /\ data'[w] = "none" /\ path'[w] = NoPath
          /\ RunState(pc'[w]) = "Capturing" => path'[w] = NoPath
          /\ RunState(pc'[w]) \in {"Mapping", "Saving", "Completed"} =>
                trig'[w] = "done" /\ data'[w] # "none"
          /\ RunState(pc'[w]) = "Mapping" => path'[w] = NoPath
          /\ RunState(pc'[w]) = "Completed" => path'[w] # NoPath]_vars

\* A run has gone through every state to Completed.
C22_Witness ==
    \E w \in Workers :
        /\ pc[w] = "done"
        /\ data[w] # "none"
        /\ trig[w] = "done"
        /\ path[w] # NoPath
        /\ ~laser_drv[w_laser[w]].mock
        /\ laser_drv[w_laser[w]].connected

\* The run of the window's current worker has ended in Error.
EndedInError == sweep_worker # None /\ pc[sweep_worker] = "error"

\* C23: Error is terminal for the run only: the run that ended in Error does
\* nothing more, the guard of run_sweep does not hold, no start request is
\* rejected, and the worker that a request creates begins at Configuring
\* with nothing of the failed run.
C23_NewRunAfterError ==
    [][EndedInError =>
          /\ ~SweepActive
          /\ pc'[sweep_worker] \in {"error", "unborn", "set_power"}
          /\ last_request' = "rejected" => last_request = "rejected"
          /\ \A w \in Workers :
                (pc'[w] = "set_power" /\ pc[w] # "set_power") =>
                    /\ sweep_worker' = w
                    /\ last_request' = "accepted"
                    /\ RunState(pc'[w]) = "Configuring"
                    /\ emitted'[w] = <<>>
                    /\ data'[w] = "none"
                    /\ path'[w] = NoPath
                    /\ w_laser'[w] = engine.laser
                    /\ w_scope'[w] = engine.scope]_vars

\* A run has ended in Error and the run started after it has reached Arming.
C23_Witness ==
    \E w1, w2 \in Workers :
        /\ w1 # w2
        /\ pc[w1] = "error"
        /\ HasEmitted(w1, "error_occurred")
        /\ sweep_worker = w2
        /\ last_request = "accepted"
        /\ pc[w2] = "turn_on"

----------------------------------------------------------------------------
(* Properties of connecting and disconnecting *)

\* C24: disconnect() of the Santec driver always leaves the laser de-energized (sweep
\* stopped, shutter closed, emission off) and the driver not connected, also
\* when a shutdown command sent by disconnect() fails.
C24_DisconnectLeavesLaserOff ==
    [][(call'.op = "laser.disconnect" /\ ~laser_drv[call'.inst].mock) =>
          /\ LaserDeEnergized'
          /\ ~laser_hw'.shutter_open
          /\ ~laser_drv'[call'.inst].connected]_vars

\* C25: a connect that fails raises and leaves its driver with is_connected
\* False; initialize_drivers then returns (False, message of the error), and
\* it returns True only when the laser and the digitizer it holds are both
\* connected.
C25_FailedConnectIsReported ==
    [][/\ (call'.op = "laser.connect" /\ call'.raised) => ~laser_drv'[call'.inst].connected
       /\ (call'.op = "laser.connect" /\ ~call'.raised) => laser_drv'[call'.inst].connected
       /\ (call'.op = "scope.connect" /\ call'.raised) => ~scope_drv'[call'.inst].connected
       /\ (call'.op = "scope.connect" /\ ~call'.raised) => scope_drv'[call'.inst].connected
       /\ call'.op = "initialize_drivers" =>
             /\ engine'.laser = call'.inst
             /\ engine'.scope = call'.inst
             /\ call'.success <=>
                   (laser_drv'[engine'.laser].connected /\ scope_drv'[engine'.scope].connected)
             /\ ~call'.success <=>
                   call'.message \in {"Failed to connect to Santec Laser", "PicoScope Error"}]_vars

\* initialize_drivers has returned False because the digitizer did not
\* connect, after the laser had.
C25_Witness ==
    /\ call.op = "initialize_drivers"
    /\ ~call.success
    /\ laser_drv[engine.laser].connected
    /\ ~scope_drv[engine.scope].connected

----------------------------------------------------------------------------
(* Properties of the live feed *)

\* C26: the real and the simulated digitizer satisfy the same streaming
\* contract: with either of them, while the live view is streaming, a poll
\* tick obtains the new samples of the digitizer and feeds them to the buffers.
C26_PollFeedsWithEitherDigitizer ==
    (is_streaming /\ live_scope # Placeholder /\ scope_drv[live_scope].streaming)
        => HasPoll(live_scope)

\* C30: whatever the lengths of the chunks the timer ticks have fed, from
\* none to more than the capacity, both channel buffers of the live view have
\* exactly roll_buffer_size samples and the time axis is the one the widget
\* was built with.
C30_LiveBuffersKeepCapacity ==
    /\ Len(data_buffer_a) = roll_buffer_size
    /\ Len(data_buffer_b) = roll_buffer_size
    /\ time_buffer = TimeAxis

\* A chunk of exactly the capacity has been fed and fills both buffers.
C30_Witness ==
    /\ call.op = "get_streaming_values"
    /\ Len(call.new_a) = roll_buffer_size
    /\ data_buffer_a = call.new_a
    /\ data_buffer_b = call.new_b

\* C36: a timer tick that gets no new samples, because the poll returned an
\* empty chunk or the widget is not streaming, leaves both channel buffers and
\* both curves of the live plot as they were.
C36_EmptyPollChangesNothing ==
    [][(n_events' = n_events /\ (~is_streaming \/ Polled(0))) =>
          UNCHANGED <<data_buffer_a, data_buffer_b, curve_a, curve_b>>]_vars

\* An empty chunk was polled while the buffers held samples that the curves
\* show.
C36_Witness ==
    /\ call.op = "get_streaming_values"
    /\ Len(call.new_a) = 0
    /\ data_buffer_a # ZeroBuffer
    /\ curve_a.y = LastShown(data_buffer_a)
    /\ curve_b.y = LastShown(data_buffer_b)

----------------------------------------------------------------------------
(* Properties of the fit *)

\* C27: a selected region with fewer than MinFitPoints samples always gives a
\* "not enough points" result that the user is shown, and no fit is attempted
\* for it.
C27_FewPointsReported ==
    [][(call'.op = "update_fit" /\ current_wavelengths.loaded /\ call'.n < MinFitPoints) =>
          /\ call'.outcome = NoFit
          /\ curve_fit' = curve_fit
          /\ lbl_info'.text = "Not enough points"]_vars

\* C28: a fit whose FWHM is zero is shown as a fit failure, not as a fit
\* result with a Q value; a Q value that is shown is center / FWHM of a
\* non-zero FWHM.
C28_ZeroWidthIsFitFailure ==
    [][(call'.op \in {"update_fit", "set_data"} /\ call'.outcome.fit = "returned") =>
          IF call'.outcome.fwhm = 0
          THEN lbl_info'.text = "Fit Failed"
          ELSE lbl_info' = [text |-> "Fit Results", center |-> call'.outcome.center,
                            q |-> <<call'.outcome.center, call'.outcome.fwhm>>]]_vars

\* C31: update_fit, whatever region is selected and however the fit ends,
\* changes neither the stored series nor any state of the instruments, the
\* engine or a sweep run.
C31_FitLeavesAcquisitionAlone ==
    [][call'.op = "update_fit" =>
          /\ current_wavelengths' = current_wavelengths
          /\ UNCHANGED <<engineVars, hwVars, workerVars>>]_vars

\* A fit of a region of the loaded series has failed, and the series is
\* still the one that was loaded.
C31_Witness ==
    /\ call.op = "update_fit"
    /\ call.outcome.fit = "raised"
    /\ lbl_info.text = "Fit Failed"
    /\ current_wavelengths.loaded
    /\ current_wavelengths.len >= MinFitPoints

----------------------------------------------------------------------------
(* Properties of the initial guesses *)

\* C32: the initial center of the fit is the wavelength of a sample whose
\* amplitude is farthest from the mean amplitude of the region, so that for
\* a flat region with one sample standing out, above (a peak) or below (a
\* dip), it is the wavelength of that sample.
C32_CenterGuessAtLargestDeviation ==
    call.op = "make_params" =>
        LET x == call.x_sub
            y == call.y_sub
            n == Len(y)
            total == SumSeq(y)
            dev(k) == IF n * y[k] >= total THEN n * y[k] - total ELSE total - n * y[k]
            other(k) == y[IF k = 1 THEN 2 ELSE 1]
        IN  /\ \E k \in 1..n : call.center = x[k] /\ \A j \in 1..n : dev(j) <= dev(k)
            /\ \A k \in 1..n :
                  (y[k] # other(k) /\ \A j \in (1..n) \ {k} : y[j] = other(k))
                      => call.center = x[k]

\* The guesses were made for a region with a single peak that is not its
\* first sample.
C32_Witness ==
    /\ call.op = "make_params"
    /\ \E k \in 2..Len(call.y_sub) :
          /\ call.y_sub[k] = MaxLevel
          /\ \A j \in (1..Len(call.y_sub)) \ {k} : call.y_sub[j] = 0
          /\ call.center = call.x_sub[k]

\* C33: the initial width of the fit is a fixed fraction of the span of the
\* selected region: the widths guessed for two regions are to each other as
\* the spans of the regions.
C33_WidthGuessProportionalToSpan ==
    call.op = "make_params" =>
        LET span(x) == x[Len(x)] - x[1] IN
        \A step \in 1..MaxStep :
            LET other == XSub(MinFitPoints, step) IN
            call.sigma * span(other) = WidthGuess(other) * span(call.x_sub)

----------------------------------------------------------------------------
(* Properties of the end of a run *)

\* C34: a run that has ended, Completed or Error, issues no further laser
\* command: its helper thread never issues start_sweep after run() has
\* returned, so no sweep is started after the run's final stop_sweep.
C34_NoSweepStartAfterRunEnded ==
    [][\A w \in Workers : IssuesStartSweep(w) => pc[w] \notin {"done", "error"}]_vars

\* The last notification of the worker, emitted in this step.
EmitsNow(w) == emitted'[w][Len(emitted'[w])]

\* C35: a run gets to stop_sweep only from the join of its helper thread,
\* which has ended; to turn_off only from a stop_sweep that returned; to the
\* mapping only from a turn_off that returned, each having sent its commands
\* to a laser that is reached; and it emits data_ready and finished_safe only
\* after the mapping and the saving.
C35_LaserStoppedBeforeMapping ==
    [][\A w \in Workers :
          /\ (pc'[w] = "stop_sweep" /\ pc[w] # "stop_sweep") =>
                pc[w] = "join" /\ trig[w] = "done"
          /\ (pc'[w] = "turn_off" /\ pc[w] # "turn_off") =>
                /\ pc[w] = "stop_sweep"
                /\ LaserReaches(w_laser[w]) => ~laser_hw'.sweeping
          /\ (pc'[w] = "map" /\ pc[w] # "map") =>
                /\ pc[w] = "turn_off"
                /\ LaserReaches(w_laser[w]) => ~laser_hw'.emission /\ ~laser_hw'.shutter_open
          /\ pc'[w] \in {"map", "autosave", "emit_data_ready", "emit_finished_safe", "done"} =>
                trig'[w] = "done"
          /\ (Len(emitted'[w]) > Len(emitted[w]) /\ EmitsNow(w) \in {"data_ready", "finished_safe"}) =>
                pc[w] \in {"emit_data_ready", "emit_finished_safe"}]_vars

\* A run on a connected laser has completed: its helper thread has ended and
\* the laser neither sweeps nor emits.
C35_Witness ==
    \E w \in Workers :
        /\ pc[w] = "done"
        /\ trig[w] = "done"
        /\ LaserReaches(w_laser[w])
        /\ HasEmitted(w, "finished_safe")
        /\ ~laser_hw.sweeping /\ ~laser_hw.emission /\ ~laser_hw.shutter_open

----------------------------------------------------------------------------
(* Properties of the live view during sweeps *)

\* C37: after any toggles of the live view and any sweep runs, the widget's
\* is_streaming flag agrees with the streaming state of its digitizer: the
\* widget does not poll a digitizer whose streaming a capture has stopped, and
\* the digitizer does not stream while the widget takes it for stopped.
C37_WidgetAgreesWithDigitizer ==
    live_scope # Placeholder => (is_streaming <=> scope_drv[live_scope].streaming)

----------------------------------------------------------------------------
(* Properties of re-initialization *)

\* C38: initialize_drivers leaves the laser and the digitizer it held
\* disconnected, and when it returns failure neither instrument of the new
\* pair is connected: a laser that connected is not left connected when the
\* digitizer's connect failed.
C38_FailedInitLeavesNothingConnected ==
    [][(call'.op = "initialize_drivers" /\ n_events' # n_events) =>
          /\ engine.laser # None => ~laser_drv'[engine.laser].connected
          /\ engine.scope # None => ~scope_drv'[engine.scope].connected
          /\ ~call'.success =>
                /\ ~laser_drv'[call'.inst].connected
                /\ ~scope_drv'[call'.inst].connected]_vars

----------------------------------------------------------------------------
(* Properties of the committed files *)

\* C39: a commit never writes over a file an earlier commit wrote: commits
\* with the same prefix and target directory get distinct target paths, also
\* when they happen within the same second.
C39_CommitNeverOverwritesCommitted ==
    [][(\E w \in Workers : ui_result[w] # "saved" /\ ui_result'[w] = "saved") =>
          Cardinality({ts \in Seconds : targets'[ts] # Absent})
              = Cardinality({ts \in Seconds : targets[ts] # Absent}) + 1]_vars

====
